---- MODULE Spec2Model ----
(***************************************************************************)
(* OpenSwiss: the storage layer (TournamentStorage) that guards the        *)
(* registration queue (pendingPlayers) and the swisstools tournament       *)
(* behind one sync.RWMutex and writes both to disk, together with the      *)
(* callers that invoke it concurrently.                                    *)
(*                                                                         *)
(* A name is a tuple of one-character strings, so that strings.ToLower and *)
(* strings.TrimSpace are computed and not assumed.                         *)
(***************************************************************************)
EXTENDS Naturals, Sequences, FiniteSets, TLC

VARIABLES
    pendingPlayers,    \* ts.pendingPlayers: sequence of [Name, Status]
    tournament,        \* ts.tournament: the in-memory engine state
    diskTournament,    \* data/tournament.json: Absent, or File(engine state)
    diskPending,       \* data/pending_players.json: Absent, or File(queue)
    mu,                \* ts.mu: [writer, readers]
    pc,                \* where each caller stands
    op,                \* the operation each caller has invoked
    arg,               \* its argument
    loc,               \* AcceptPlayer's locals: found, actualName, playerIndex, added,
                       \* message (the text of its not-found error);
                       \* GetPendingPlayers' local: listed (the slice it returns)
    result,            \* the error (or "ok") the call returns
    snap,              \* ghost: the guarded state when the exclusive lock was taken
    calls,             \* ghost: number of calls invoked so far
    persistedIdx,      \* ghost: queue positions whose accept has saved the engine state
    env,               \* the surroundings: whether the engine's AddPlayer refuses a name
                       \* already in its roster, and whether the engine and the disk can fail
    web                \* the HTTP layer: a.sessions, the session ids generated so far,
                       \* each request in flight and the last response to each client

vars == <<pendingPlayers, tournament, diskTournament, diskPending, mu, pc, op, arg,
          loc, result, snap, calls, persistedIdx, env, web>>

shared == <<pendingPlayers, tournament, diskTournament, diskPending>>

-----------------------------------------------------------------------------
(* Bounds *)

MaxCalls == 3

Procs == {"p1", "p2"}

None == "none"

\* The argument of a caller that is not in a call
NoArg == <<>>

\* The names callers submit and look up: case and whitespace variants of one
\* name, and a different name.
InputNames == { <<"A">>, <<"a">>, <<" ", "A">>, <<"B">> }

-----------------------------------------------------------------------------
(* strings *)

LowerChar(c) ==
    CASE c = "A" -> "a"
      [] c = "B" -> "b"
      [] OTHER -> c

ToLower(s) == [i \in 1..Len(s) |-> LowerChar(s[i])]

RECURSIVE TrimLeft(_)
TrimLeft(s) ==
    IF s # <<>> /\ Head(s) = " " THEN TrimLeft(Tail(s)) ELSE s

RECURSIVE TrimRight(_)
TrimRight(s) ==
    IF s # <<>> /\ s[Len(s)] = " " THEN TrimRight(SubSeq(s, 1, Len(s) - 1)) ELSE s

TrimSpace(s) == TrimRight(TrimLeft(s))

\* strings.ToLower(strings.TrimSpace(name))
NormName(s) == ToLower(TrimSpace(s))

-----------------------------------------------------------------------------
(* The tournament engine (github.com/dstathis/swisstools), as the storage  *)
(* layer and its tests use it.                                             *)

NewTournament ==
    [players |-> <<>>, lastId |-> 0, status |-> "setup", paired |-> FALSE]

RosterNames(t) == {t.players[i].name : i \in 1..Len(t.players)}

RosterIds(t) == {t.players[i].id : i \in 1..Len(t.players)}

\* tournament.GetPlayerByName(name): found
GetPlayerByName(t, name) == name \in RosterNames(t)

\* tournament.GetPlayerCount()
GetPlayerCount(t) == Len(t.players)

\* Number of participants carrying this name
CountNamed(t, name) == Cardinality({i \in 1..Len(t.players) : t.players[i].name = name})

\* t.AddPlayer(name): <<error, engine state>>; engineFails is the engine
\* refusing for a reason of its own.
AddPlayer(t, name, engineFails, rejectsDup) ==
    IF engineFails \/ (rejectsDup /\ GetPlayerByName(t, name))
    THEN <<"EngineError", t>>
    ELSE <<"ok", [t EXCEPT !.players = Append(@, [id |-> t.lastId + 1, name |-> name]),
                           !.lastId = @ + 1]>>

\* t.RemovePlayerById(id)
RemovePlayerById(t, id) ==
    IF id \notin RosterIds(t)
    THEN <<"EngineError", t>>
    ELSE <<"ok", [t EXCEPT !.players = SelectSeq(@, LAMBDA pl : pl.id # id)]>>

\* t.StartTournament(): also creates the pairings of round 1
StartTournament(t) ==
    IF t.status # "setup"
    THEN <<"EngineError", t>>
    ELSE <<"ok", [t EXCEPT !.status = "in_progress", !.paired = TRUE]>>

\* t.Pair(allowRepair)
Pair(t) ==
    IF t.status # "in_progress" \/ t.paired
    THEN <<"EngineError", t>>
    ELSE <<"ok", [t EXCEPT !.paired = TRUE]>>

\* t.NextRound()
NextRound(t) ==
    IF t.status # "in_progress" \/ ~t.paired
    THEN <<"EngineError", t>>
    ELSE <<"ok", [t EXCEPT !.paired = FALSE]>>

-----------------------------------------------------------------------------
(* The mutations handlers and tests pass to UpdateTournament *)

\* A mutation is the pair of its kind and the participant id it is about
\* (0 when it is about none)
Mutators ==
    {<<k, 0>> : k \in {"start", "pair", "next", "startThenPair"}}
      \cup {<<"remove", i>> : i \in 1..MaxCalls}

MutatorKind(m) == m[1]

MutatorId(m) == m[2]

\* fn(&ts.tournament): <<error, engine state>>. A composite mutation that fails
\* at its second step has already applied its first to the engine.
ApplyMutator(t, m) ==
    CASE MutatorKind(m) = "start" -> StartTournament(t)
      [] MutatorKind(m) = "pair" -> Pair(t)
      [] MutatorKind(m) = "next" -> NextRound(t)
      [] MutatorKind(m) = "remove" -> RemovePlayerById(t, MutatorId(m))
      [] MutatorKind(m) = "startThenPair" ->
            LET r == StartTournament(t)
            IN  IF r[1] # "ok" THEN r ELSE Pair(r[2])

-----------------------------------------------------------------------------
(* TournamentStorage *)

\* os.WriteFile either writes the whole record or fails
WriteOutcomes == IF env.faults THEN {"ok", "fail"} ELSE {"ok"}

\* the engine may refuse AddPlayer for a reason of its own
EngineOutcomes == IF env.faults THEN {FALSE, TRUE} ELSE {FALSE}

\* A file that does not exist, a file holding a record, and a file that
\* cannot be read or parsed
Absent == [exists |-> FALSE]

File(d) == [exists |-> TRUE, data |-> d]

Unreadable == [exists |-> TRUE, damaged |-> TRUE]

IsUnreadable(f) == f = Unreadable

\* A byte that is not valid UTF-8, and the replacement rune U+FFFD
BadByte == "0xFF"

ReplacementRune == "U+FFFD"

\* encoding/json writes a string coerced to valid UTF-8
ToValidUTF8(s) == [i \in 1..Len(s) |-> IF s[i] = BadByte THEN ReplacementRune ELSE s[i]]

\* json.Marshal(ts.pendingPlayers): the array of {"name", "status"} objects
MarshalQueue(q) ==
    [i \in 1..Len(q) |-> [Name |-> ToValidUTF8(q[i].Name), Status |-> q[i].Status]]

\* fmt.Sprintf("%q", s): the Go-quoted string, a double quote on each side
\* and every byte that is not printable escaped
QuoteChar(c) == IF c = BadByte THEN "\\xff" ELSE c

Quote(s) == <<"\"">> \o [i \in 1..Len(s) |-> QuoteChar(s[i])] \o <<"\"">>

\* strings.Join(elems, sep)
RECURSIVE Join(_, _)
Join(elems, sep) ==
    IF elems = <<>> THEN <<>>
    ELSE IF Len(elems) = 1 THEN elems[1]
    ELSE elems[1] \o sep \o Join(Tail(elems), sep)

\* (mutant) every entry is listed, whatever its status
QuotedNamesOfAll(q) == [i \in 1..Len(q) |-> Quote(q[i].Name)]

\* AcceptPlayer's loop over ts.pendingPlayers that fills pendingNames
RECURSIVE QuotedPendingNames(_)
QuotedPendingNames(q) ==
    IF q = <<>> THEN <<>>
    ELSE (IF Head(q).Status = "pending" THEN <<Quote(Head(q).Name)>> ELSE <<>>)
             \o QuotedPendingNames(Tail(q))

\* The text of the error AcceptPlayer returns when it has found no entry
NotFoundError(q, name) ==
    LET pendingNames == QuotedPendingNames(q)
    IN  IF Len(pendingNames) > 0
        THEN <<"player ">> \o Quote(name)
                 \o <<" not found in pending list. Available: ">>
                 \o Join(pendingNames, <<", ">>)
        ELSE <<"player ">> \o Quote(name)
                 \o <<" not found in pending list (no pending players)">>

NoLoc ==
    [found |-> FALSE, actualName |-> <<>>, playerIndex |-> 0, added |-> FALSE,
     listed |-> <<>>, message |-> <<>>]

\* Session ids: generateSessionID draws 32 random bytes, taken never to
\* repeat; the k-th id generated is k
SessionIds == 1..MaxCalls

\* no "session" cookie (getSessionID returns "")
NoCookie == 0

RoleAdmin == "admin"

RolePlayer == "player"

\* a.sessions has no entry for the id
NoSession == "nosession"

NoReq ==
    [route |-> None, cookie |-> NoCookie, role |-> NoSession, password |-> None,
     name |-> NoArg]

NoResp == [status |-> None, cookie |-> NoCookie]

\* NewAuth: no session; no request made
NoWeb ==
    [sessions |-> [i \in SessionIds |-> NoSession],
     issued |-> 0,
     req |-> [p \in Procs |-> NoReq],
     resp |-> [p \in Procs |-> NoResp]]

NoSnap == [taken |-> FALSE]

Snapshot ==
    [taken |-> TRUE, q |-> pendingPlayers, t |-> tournament,
     dq |-> diskPending, dt |-> diskTournament]

\* NewTournamentStorage with no file on disk
Init ==
    /\ pendingPlayers = <<>>
    /\ tournament = NewTournament
    /\ diskTournament = Absent
    /\ diskPending = Absent
    /\ mu = [writer |-> None, readers |-> {}]
    /\ pc = [p \in Procs |-> "idle"]
    /\ op = [p \in Procs |-> None]
    /\ arg = [p \in Procs |-> NoArg]
    /\ loc = [p \in Procs |-> NoLoc]
    /\ result = [p \in Procs |-> None]
    /\ snap = NoSnap
    /\ calls = 0
    /\ persistedIdx = {}
    /\ env \in [rejectsDuplicate : BOOLEAN, faults : {TRUE}]
    /\ web = NoWeb

\* (mutant) every entry is returned, whatever its status
GetAllPlayers(q) == q

\* GetPendingPlayers: the entries whose status is pending, in order
GetPendingPlayers(q) == SelectSeq(q, LAMBDA pp : pp.Status = "pending")

\* (mutant) Lock that does not wait for another writer
CanLockIgnoringWriter(m) == m.readers = {}

\* ts.mu.Lock() can return
CanLock(m) == m.writer = None /\ m.readers = {}

\* ts.mu.RLock() can return
CanRLock(m) == m.writer = None

\* (mutant) the duplicate check looks at accepted entries instead of pending ones
IsAlreadyAccepted(q, name) ==
    \E i \in 1..Len(q) : q[i].Name = name /\ q[i].Status = "accepted"

\* AddPendingPlayer's loop: an entry with this very name is pending
IsAlreadyPending(q, name) ==
    \E i \in 1..Len(q) : q[i].Name = name /\ q[i].Status = "pending"

\* (mutant) the lookup does not test the status
FindAnyStatus(q, name) ==
    LET hits == {i \in 1..Len(q) : NormName(q[i].Name) = NormName(name)}
    IN  IF hits = {} THEN 0 ELSE CHOOSE i \in hits : \A j \in hits : i <= j

\* (mutant) a pending entry that equals the argument exactly is preferred to
\* an earlier one that equals it only once lowered and trimmed
FindPendingPreferExact(q, name) ==
    LET hits == {i \in 1..Len(q) : /\ NormName(q[i].Name) = NormName(name)
                                  /\ q[i].Status = "pending"}
        exact == {i \in hits : q[i].Name = name}
        from == IF exact # {} THEN exact ELSE hits
    IN  IF hits = {} THEN 0 ELSE CHOOSE i \in from : \A j \in from : i <= j

\* AcceptPlayer's loop: the first pending entry whose lowered, trimmed name
\* equals the lowered, trimmed argument (0: none)
FindPending(q, name) ==
    LET hits == {i \in 1..Len(q) : /\ NormName(q[i].Name) = NormName(name)
                                  /\ q[i].Status = "pending"}
    IN  IF hits = {} THEN 0 ELSE CHOOSE i \in hits : \A j \in hits : i <= j

\* (mutant) the loop does not test the status
FindExactAnyStatus(q, name) ==
    LET hits == {i \in 1..Len(q) : q[i].Name = name}
    IN  IF hits = {} THEN 0 ELSE CHOOSE i \in hits : \A j \in hits : i <= j

\* RejectPlayer's loop: the first pending entry with this very name (0: none)
FindPendingExact(q, name) ==
    LET hits == {i \in 1..Len(q) : q[i].Name = name /\ q[i].Status = "pending"}
    IN  IF hits = {} THEN 0 ELSE CHOOSE i \in hits : \A j \in hits : i <= j

\* (mutant) the order before the fix: mark accepted, then add to the engine
AcceptOrderMarkFirst == <<"acc_mark", "acc_add", "acc_saveT", "acc_saveP">>

\* The steps of AcceptPlayer after the entry is found, in the order of the code
AcceptOrder == <<"acc_add", "acc_mark", "acc_saveT", "acc_saveP">>

AfterStage(s) ==
    LET i == CHOOSE k \in 1..Len(AcceptOrder) : AcceptOrder[k] = s
    IN  IF i = Len(AcceptOrder) THEN "unlock" ELSE AcceptOrder[i + 1]

\* (mutant) the engine is given the name the administrator typed
NameToAddArgument(l, name) == name

\* The name AcceptPlayer hands to the engine
NameToAdd(l, name) == l.actualName

SetStatus(q, i, st) == [q EXCEPT ![i].Status = st]

\* (mutant) a failed save leaves the status as it is
RevertNothing(q, i) == q

\* AcceptPlayer's rollback: ts.pendingPlayers[playerIndex].Status = "pending"
Revert(q, i) == SetStatus(q, i, "pending")

-----------------------------------------------------------------------------
(* Callers *)

WriterOps == {"submit", "accept", "reject", "update"}

FirstStep(o) ==
    CASE o = "submit" -> "sub"
      [] o = "accept" -> "acc_find"
      [] o = "reject" -> "rej"
      [] o = "update" -> "upd"

\* A caller invokes AddPendingPlayer, AcceptPlayer, RejectPlayer or
\* UpdateTournament and reaches ts.mu.Lock()
CallWriter(p) ==
    /\ pc[p] = "idle"
    /\ calls < MaxCalls
    /\ \E o \in WriterOps :
         \E a \in (IF o = "update" THEN Mutators ELSE InputNames) :
            /\ op' = [op EXCEPT ![p] = o]
            /\ arg' = [arg EXCEPT ![p] = a]
    /\ pc' = [pc EXCEPT ![p] = "wait"]
    /\ calls' = calls + 1
    /\ UNCHANGED <<shared, mu, loc, result, snap, persistedIdx, env, web>>

\* A handler invokes GetTournament ("view": it then reads the returned value)
\* or GetPendingPlayers ("list") and reaches ts.mu.RLock()
CallReader(p) ==
    /\ pc[p] = "idle"
    /\ calls < MaxCalls
    /\ \E o \in {"view", "list"} : op' = [op EXCEPT ![p] = o]
    /\ pc' = [pc EXCEPT ![p] = "rwait"]
    /\ calls' = calls + 1
    /\ UNCHANGED <<shared, mu, arg, loc, result, snap, persistedIdx, env, web>>

\* ts.mu.Lock() returns
Lock(p) ==
    /\ pc[p] = "wait"
    /\ CanLock(mu)
    /\ mu' = [mu EXCEPT !.writer = p]
    /\ snap' = Snapshot
    /\ pc' = [pc EXCEPT ![p] = FirstStep(op[p])]
    /\ UNCHANGED <<shared, op, arg, loc, result, calls, persistedIdx, env, web>>

\* the deferred ts.mu.Unlock()
Unlock(p) ==
    /\ pc[p] = "unlock"
    /\ mu' = [mu EXCEPT !.writer = None]
    /\ snap' = NoSnap
    /\ pc' = [pc EXCEPT ![p] = "ret"]
    /\ UNCHANGED <<shared, op, arg, loc, result, calls, persistedIdx, env, web>>

\* the caller has its result and goes on
Return(p) ==
    /\ pc[p] = "ret"
    /\ pc' = [pc EXCEPT ![p] = "idle"]
    /\ op' = [op EXCEPT ![p] = None]
    /\ arg' = [arg EXCEPT ![p] = NoArg]
    /\ loc' = [loc EXCEPT ![p] = NoLoc]
    /\ result' = [result EXCEPT ![p] = None]
    /\ UNCHANGED <<shared, mu, snap, calls, persistedIdx, env, web>>

\* (mutant) an early return on an error path that does not unlock
FinishHoldingLock(p, r) ==
    /\ result' = [result EXCEPT ![p] = r]
    /\ pc' = [pc EXCEPT ![p] = IF r = "ok" THEN "unlock" ELSE "ret"]

Finish(p, r) ==
    /\ result' = [result EXCEPT ![p] = r]
    /\ pc' = [pc EXCEPT ![p] = "unlock"]

-----------------------------------------------------------------------------
(* AddPendingPlayer *)

Submit(p) ==
    /\ pc[p] = "sub"
    /\ IF IsAlreadyPending(pendingPlayers, arg[p])
       THEN Finish(p, "AlreadyPending") /\ UNCHANGED pendingPlayers
       ELSE IF GetPlayerByName(tournament, arg[p])
       THEN Finish(p, "AlreadyActive") /\ UNCHANGED pendingPlayers
       ELSE /\ pendingPlayers' =
                  Append(pendingPlayers, [Name |-> arg[p], Status |-> "pending"])
            /\ pc' = [pc EXCEPT ![p] = "sub_save"]
            /\ UNCHANGED result
    /\ UNCHANGED <<tournament, diskTournament, diskPending, mu, op, arg, loc, snap,
                   calls, persistedIdx, env, web>>

\* (mutant) the append is taken back when the save fails
SubmitSaveRollback(p) ==
    /\ pc[p] = "sub_save"
    /\ \E w \in WriteOutcomes :
         /\ diskPending' = IF w = "ok" THEN File(MarshalQueue(pendingPlayers)) ELSE diskPending
         /\ pendingPlayers' = IF w = "ok" THEN pendingPlayers ELSE snap.q
         /\ Finish(p, IF w = "ok" THEN "ok" ELSE "PersistError")
    /\ UNCHANGED <<tournament, diskTournament, mu, op, arg, loc, snap,
                   calls, persistedIdx, env, web>>

\* (mutant) the file is opened for appending and only the new entry written
SubmitSaveAppended(p) ==
    /\ pc[p] = "sub_save"
    /\ \E w \in WriteOutcomes :
         /\ diskPending' =
               IF w # "ok" THEN diskPending
               ELSE File((IF diskPending.exists THEN diskPending.data ELSE <<>>)
                            \o <<pendingPlayers[Len(pendingPlayers)]>>)
         /\ Finish(p, IF w = "ok" THEN "ok" ELSE "PersistError")
    /\ UNCHANGED <<pendingPlayers, tournament, diskTournament, mu, op, arg, loc, snap,
                   calls, persistedIdx, env, web>>

\* return ts.savePendingPlayers(), nothing undone when it fails
SubmitSave(p) ==
    /\ pc[p] = "sub_save"
    /\ \E w \in WriteOutcomes :
         /\ diskPending' = IF w = "ok" THEN File(MarshalQueue(pendingPlayers)) ELSE diskPending
         /\ Finish(p, IF w = "ok" THEN "ok" ELSE "PersistError")
    /\ UNCHANGED <<pendingPlayers, tournament, diskTournament, mu, op, arg, loc, snap,
                   calls, persistedIdx, env, web>>

-----------------------------------------------------------------------------
(* AcceptPlayer *)

AcceptFind(p) ==
    /\ pc[p] = "acc_find"
    /\ LET i == FindPending(pendingPlayers, arg[p])
       IN  IF i = 0
           THEN /\ Finish(p, "NotFound")
                /\ loc' = [loc EXCEPT ![p].message = NotFoundError(pendingPlayers, arg[p])]
           ELSE /\ loc' = [loc EXCEPT ![p] = [found |-> TRUE,
                                              actualName |-> pendingPlayers[i].Name,
                                              playerIndex |-> i,
                                              added |-> FALSE,
                                              listed |-> <<>>,
                                              message |-> <<>>]]
                /\ pc' = [pc EXCEPT ![p] = AcceptOrder[1]]
                /\ UNCHANGED result
    /\ UNCHANGED <<shared, mu, op, arg, snap, calls, persistedIdx, env, web>>

AcceptDone(p, stage) ==
    /\ pc' = [pc EXCEPT ![p] = AfterStage(stage)]
    /\ result' = [result EXCEPT ![p] = IF AfterStage(stage) = "unlock" THEN "ok" ELSE @]

\* ts.tournament.AddPlayer(actualName)
AcceptAdd(p) ==
    /\ pc[p] = "acc_add"
    /\ \E engineFails \in EngineOutcomes :
         LET r == AddPlayer(tournament, NameToAdd(loc[p], arg[p]), engineFails,
                            env.rejectsDuplicate)
         IN  IF r[1] # "ok"
             THEN Finish(p, r[1]) /\ UNCHANGED <<tournament, loc>>
             ELSE /\ tournament' = r[2]
                  /\ loc' = [loc EXCEPT ![p].added = TRUE]
                  /\ AcceptDone(p, "acc_add")
    /\ UNCHANGED <<pendingPlayers, diskTournament, diskPending, mu, op, arg, snap,
                   calls, persistedIdx, env, web>>

\* ts.pendingPlayers[playerIndex].Status = "accepted"
AcceptMark(p) ==
    /\ pc[p] = "acc_mark"
    /\ pendingPlayers' = SetStatus(pendingPlayers, loc[p].playerIndex, "accepted")
    /\ AcceptDone(p, "acc_mark")
    /\ UNCHANGED <<tournament, diskTournament, diskPending, mu, op, arg, loc, snap,
                   calls, persistedIdx, env, web>>

\* ts.saveTournament(); the status goes back to pending when it fails
AcceptSaveTournament(p) ==
    /\ pc[p] = "acc_saveT"
    /\ \E w \in WriteOutcomes :
         IF w = "ok"
         THEN /\ diskTournament' = File(tournament)
              /\ persistedIdx' = persistedIdx \cup
                     (IF GetPlayerByName(tournament, loc[p].actualName)
                      THEN {loc[p].playerIndex} ELSE {})
              /\ AcceptDone(p, "acc_saveT")
              /\ UNCHANGED pendingPlayers
         ELSE /\ pendingPlayers' = Revert(pendingPlayers, loc[p].playerIndex)
              /\ Finish(p, "PersistError")
              /\ UNCHANGED <<diskTournament, persistedIdx>>
    /\ UNCHANGED <<tournament, diskPending, mu, op, arg, loc, snap, calls,
                   env, web>>

\* ts.savePendingPlayers(); the status goes back to pending when it fails
AcceptSavePending(p) ==
    /\ pc[p] = "acc_saveP"
    /\ \E w \in WriteOutcomes :
         IF w = "ok"
         THEN /\ diskPending' = File(MarshalQueue(pendingPlayers))
              /\ AcceptDone(p, "acc_saveP")
              /\ UNCHANGED pendingPlayers
         ELSE /\ pendingPlayers' = Revert(pendingPlayers, loc[p].playerIndex)
              /\ Finish(p, "PersistError")
              /\ UNCHANGED diskPending
    /\ UNCHANGED <<tournament, diskTournament, mu, op, arg, loc, snap, calls,
                   persistedIdx, env, web>>

-----------------------------------------------------------------------------
(* RejectPlayer *)

Reject(p) ==
    /\ pc[p] = "rej"
    /\ LET i == FindPendingExact(pendingPlayers, arg[p])
       IN  IF i = 0
           THEN Finish(p, "NotFound") /\ UNCHANGED pendingPlayers
           ELSE /\ pendingPlayers' = SetStatus(pendingPlayers, i, "rejected")
                /\ pc' = [pc EXCEPT ![p] = "rej_save"]
                /\ UNCHANGED result
    /\ UNCHANGED <<tournament, diskTournament, diskPending, mu, op, arg, loc, snap,
                   calls, persistedIdx, env, web>>

\* (mutant) reject saves the engine state as well
RejectSaveBothFiles(p) ==
    /\ pc[p] = "rej_save"
    /\ \E w \in WriteOutcomes :
         /\ diskPending' = IF w = "ok" THEN File(MarshalQueue(pendingPlayers)) ELSE diskPending
         /\ diskTournament' = IF w = "ok" THEN File(tournament) ELSE diskTournament
         /\ Finish(p, IF w = "ok" THEN "ok" ELSE "PersistError")
    /\ UNCHANGED <<pendingPlayers, tournament, mu, op, arg, loc, snap,
                   calls, persistedIdx, env, web>>

\* return ts.savePendingPlayers(), nothing undone when it fails
RejectSave(p) ==
    /\ pc[p] = "rej_save"
    /\ \E w \in WriteOutcomes :
         /\ diskPending' = IF w = "ok" THEN File(MarshalQueue(pendingPlayers)) ELSE diskPending
         /\ Finish(p, IF w = "ok" THEN "ok" ELSE "PersistError")
    /\ UNCHANGED <<pendingPlayers, tournament, diskTournament, mu, op, arg, loc, snap,
                   calls, persistedIdx, env, web>>

-----------------------------------------------------------------------------
(* UpdateTournament *)

\* (mutant) the engine state is saved whatever fn returned
UpdateSavesAnyway(p) ==
    /\ pc[p] = "upd"
    /\ tournament' = ApplyMutator(tournament, arg[p])[2]
    /\ pc' = [pc EXCEPT ![p] = "upd_save"]
    /\ UNCHANGED <<pendingPlayers, diskTournament, diskPending, mu, op, arg, loc, snap,
                   calls, persistedIdx, env, web, result>>

Update(p) ==
    /\ pc[p] = "upd"
    /\ LET r == ApplyMutator(tournament, arg[p])
       IN  /\ tournament' = r[2]
           /\ IF r[1] # "ok"
              THEN Finish(p, r[1])
              ELSE pc' = [pc EXCEPT ![p] = "upd_save"] /\ UNCHANGED result
    /\ UNCHANGED <<pendingPlayers, diskTournament, diskPending, mu, op, arg, loc, snap,
                   calls, persistedIdx, env, web>>

\* return ts.saveTournament(), nothing undone when it fails
UpdateSave(p) ==
    /\ pc[p] = "upd_save"
    /\ \E w \in WriteOutcomes :
         /\ diskTournament' = IF w = "ok" THEN File(tournament) ELSE diskTournament
         /\ Finish(p, IF w = "ok" THEN "ok" ELSE "PersistError")
    /\ UNCHANGED <<pendingPlayers, tournament, diskPending, mu, op, arg, loc, snap,
                   calls, persistedIdx, env, web>>

-----------------------------------------------------------------------------
(* GetTournament, GetPendingPlayers and the handlers that read the result *)

\* ts.mu.RLock() returns
RLock(p) ==
    /\ pc[p] = "rwait"
    /\ CanRLock(mu)
    /\ mu' = [mu EXCEPT !.readers = @ \cup {p}]
    /\ pc' = [pc EXCEPT ![p] = "rheld"]
    /\ UNCHANGED <<shared, op, arg, loc, result, snap, calls, persistedIdx,
                   env, web>>

\* Where the caller stands once the deferred RUnlock has run: GetPendingPlayers
\* has built its own slice; GetTournament has returned ts.tournament, which
\* the handler goes on to read.
AfterRUnlock(o) == IF o = "view" THEN "reading" ELSE "ret"

\* the deferred ts.mu.RUnlock()
RUnlock(p) ==
    /\ pc[p] = "rheld"
    /\ mu' = [mu EXCEPT !.readers = @ \ {p}]
    /\ pc' = [pc EXCEPT ![p] = AfterRUnlock(op[p])]
    /\ result' = [result EXCEPT ![p] = "ok"]
    /\ loc' = [loc EXCEPT ![p].listed =
                  IF op[p] = "list" THEN GetPendingPlayers(pendingPlayers) ELSE @]
    /\ UNCHANGED <<shared, op, arg, snap, calls, persistedIdx, env, web>>

\* the handler reads the roster, standings, pairings, status and round through
\* the value GetTournament returned
HandlerRead(p) ==
    /\ pc[p] = "reading"
    /\ pc' = [pc EXCEPT ![p] = "ret"]
    /\ UNCHANGED <<shared, mu, op, arg, loc, result, snap, calls, persistedIdx,
                   env, web>>

-----------------------------------------------------------------------------

Next ==
    \E p \in Procs :
        \/ CallWriter(p)
        \/ CallReader(p)
        \/ Lock(p)
        \/ Unlock(p)
        \/ Return(p)
        \/ Submit(p)
        \/ SubmitSave(p)
        \/ AcceptFind(p)
        \/ AcceptAdd(p)
        \/ AcceptMark(p)
        \/ AcceptSaveTournament(p)
        \/ AcceptSavePending(p)
        \/ Reject(p)
        \/ RejectSave(p)
        \/ Update(p)
        \/ UpdateSave(p)
        \/ RLock(p)
        \/ RUnlock(p)
        \/ HandlerRead(p)

Spec == Init /\ [][Next]_vars

\* The steps of a call once it is invoked: the goroutine serving it keeps
\* being scheduled
Step(p) ==
    \/ Unlock(p) \/ Return(p)
    \/ Submit(p) \/ SubmitSave(p)
    \/ AcceptFind(p) \/ AcceptAdd(p) \/ AcceptMark(p)
    \/ AcceptSaveTournament(p) \/ AcceptSavePending(p)
    \/ Reject(p) \/ RejectSave(p)
    \/ Update(p) \/ UpdateSave(p)
    \/ RUnlock(p) \/ HandlerRead(p)

\* Every running call takes its next step, and a call waiting in Lock or
\* RLock gets the mutex if it is free again and again (sync.RWMutex does not
\* starve a waiter); callers are free not to call.
Fairness ==
    \A p \in Procs :
        /\ WF_vars(Step(p))
        /\ SF_vars(Lock(p) \/ RLock(p))

FairSpec == Spec /\ Fairness

-----------------------------------------------------------------------------
(* Scenario E: one pending entry, two callers already inside AcceptPlayer   *)
(* with arguments that match it, an engine and a disk that do not fail.    *)

OneEntry(x) == <<[Name |-> x, Status |-> "pending"]>>

InitE ==
    \E x \in InputNames :
        /\ pendingPlayers = OneEntry(x)
        /\ tournament = NewTournament
        /\ diskTournament = Absent
        /\ diskPending = File(MarshalQueue(OneEntry(x)))
        /\ mu = [writer |-> None, readers |-> {}]
        /\ pc = [p \in Procs |-> "wait"]
        /\ op = [p \in Procs |-> "accept"]
        /\ arg \in [Procs -> {a \in InputNames : NormName(a) = NormName(x)}]
        /\ loc = [p \in Procs |-> NoLoc]
        /\ result = [p \in Procs |-> None]
        /\ snap = NoSnap
        /\ calls = MaxCalls
        /\ persistedIdx = {}
        /\ env \in [rejectsDuplicate : BOOLEAN, faults : {FALSE}]
        /\ web = NoWeb

NextE ==
    \E p \in Procs :
        \/ Lock(p)
        \/ Unlock(p)
        \/ AcceptFind(p)
        \/ AcceptAdd(p)
        \/ AcceptMark(p)
        \/ AcceptSaveTournament(p)
        \/ AcceptSavePending(p)

SpecE == InitE /\ [][NextE]_vars

-----------------------------------------------------------------------------
(* Retry after a failed accept: name x was submitted and one AcceptPlayer    *)
(* call added it to the engine and then failed at saveTournament (no engine  *)
(* record written) or at savePendingPlayers (engine record written); the     *)
(* entry is pending again and the participant is in the roster. From here    *)
(* the engine and the disk do not fail.                                      *)

AfterFailedAccept(x) == AddPlayer(NewTournament, x, FALSE, FALSE)[2]

InitR ==
    \E x \in InputNames :
        /\ pendingPlayers = OneEntry(x)
        /\ tournament = AfterFailedAccept(x)
        /\ \/ diskTournament = Absent /\ persistedIdx = {}
           \/ diskTournament = File(AfterFailedAccept(x)) /\ persistedIdx = {1}
        /\ diskPending = File(MarshalQueue(OneEntry(x)))
        /\ mu = [writer |-> None, readers |-> {}]
        /\ pc = [p \in Procs |-> "idle"]
        /\ op = [p \in Procs |-> None]
        /\ arg = [p \in Procs |-> NoArg]
        /\ loc = [p \in Procs |-> NoLoc]
        /\ result = [p \in Procs |-> None]
        /\ snap = NoSnap
        /\ calls = 2
        /\ env \in [rejectsDuplicate : BOOLEAN, faults : {FALSE}]
        /\ web = NoWeb

SpecR == InitR /\ [][Next]_vars

-----------------------------------------------------------------------------
(* Registration only: callers submit, accept, reject and query; nobody     *)
(* calls UpdateTournament, and the engine and the disk do not fail.        *)

InitN ==
    /\ pendingPlayers = <<>>
    /\ tournament = NewTournament
    /\ diskTournament = Absent
    /\ diskPending = Absent
    /\ mu = [writer |-> None, readers |-> {}]
    /\ pc = [p \in Procs |-> "idle"]
    /\ op = [p \in Procs |-> None]
    /\ arg = [p \in Procs |-> NoArg]
    /\ loc = [p \in Procs |-> NoLoc]
    /\ result = [p \in Procs |-> None]
    /\ snap = NoSnap
    /\ calls = 0
    /\ persistedIdx = {}
    /\ env \in [rejectsDuplicate : BOOLEAN, faults : {FALSE}]
    /\ web = NoWeb

\* A caller invokes AddPendingPlayer, AcceptPlayer or RejectPlayer
CallQueueWriter(p) == CallWriter(p) /\ op'[p] # "update"

NextN ==
    \E p \in Procs :
        \/ CallQueueWriter(p)
        \/ CallReader(p)
        \/ Lock(p)
        \/ Unlock(p)
        \/ Return(p)
        \/ Submit(p)
        \/ SubmitSave(p)
        \/ AcceptFind(p)
        \/ AcceptAdd(p)
        \/ AcceptMark(p)
        \/ AcceptSaveTournament(p)
        \/ AcceptSavePending(p)
        \/ Reject(p)
        \/ RejectSave(p)
        \/ RLock(p)
        \/ RUnlock(p)
        \/ HandlerRead(p)

SpecN == InitN /\ [][NextN]_vars

-----------------------------------------------------------------------------
(* Scenario S: the server is stopped and started again. Only runs in which *)
(* every operation returned success are followed; a name may hold a byte   *)
(* that is not valid UTF-8 (a form value decoded from %FF).                *)

BadName == <<BadByte>>

\* loadTournament: os.ReadFile, then st.LoadTournament
loadTournament(f) ==
    IF ~f.exists THEN [err |-> "NotExist", tournament |-> NewTournament]
    ELSE IF IsUnreadable(f) THEN [err |-> "LoadError", tournament |-> NewTournament]
    ELSE [err |-> "ok", tournament |-> f.data]

\* loadPendingPlayers: os.ReadFile, then json.Unmarshal into ts.pendingPlayers
loadPendingPlayers(f) ==
    IF ~f.exists THEN [err |-> "NotExist", pendingPlayers |-> <<>>]
    ELSE IF IsUnreadable(f) THEN [err |-> "LoadError", pendingPlayers |-> <<>>]
    ELSE [err |-> "ok", pendingPlayers |-> f.data]

\* err != nil && !os.IsNotExist(err)
IsFatal(e) == e \notin {"ok", "NotExist"}

\* NewTournamentStorage: the engine state is loaded first, then the queue
NewTournamentStorage(ft, fp) ==
    LET lt == loadTournament(ft)
        lp == loadPendingPlayers(fp)
    IN  IF IsFatal(lt.err) \/ IsFatal(lp.err)
        THEN [err |-> "LoadError", tournament |-> NewTournament, pendingPlayers |-> <<>>]
        ELSE [err |-> "ok", tournament |-> lt.tournament,
              pendingPlayers |-> lp.pendingPlayers]

Quiescent == \A p \in Procs : pc[p] = "idle"

\* The process is stopped while no request is being served and started
\* again: main builds a new TournamentStorage, and exits when that fails
Restart ==
    /\ Quiescent
    /\ LET r == NewTournamentStorage(diskTournament, diskPending)
       IN  /\ pendingPlayers' = r.pendingPlayers
           /\ tournament' = r.tournament
           /\ pc' = [p \in Procs |-> IF r.err = "ok" THEN "idle" ELSE "down"]
    /\ snap' = NoSnap
    /\ UNCHANGED <<diskTournament, diskPending, mu, op, arg, loc, result, calls,
                   persistedIdx, env, web>>

\* The surroundings leave one of the files unreadable or unparsable
DamageFile ==
    /\ Quiescent
    /\ \/ diskTournament.exists /\ diskTournament' = Unreadable
          /\ UNCHANGED diskPending
       \/ diskPending.exists /\ diskPending' = Unreadable
          /\ UNCHANGED diskTournament
    /\ UNCHANGED <<pendingPlayers, tournament, mu, pc, op, arg, loc, result, snap,
                   calls, persistedIdx, env, web>>

\* No call has returned an error
AllSucceeded == \A p \in Procs : result[p] \in {None, "ok"}

\* The step leaves caller p without an error
Succeeds(p) == result'[p] \in {None, "ok"}

\* A caller passes the name with the invalid byte
CallRawName(p) ==
    /\ pc[p] = "idle"
    /\ calls < MaxCalls
    /\ \E o \in {"submit", "accept", "reject"} : op' = [op EXCEPT ![p] = o]
    /\ arg' = [arg EXCEPT ![p] = BadName]
    /\ pc' = [pc EXCEPT ![p] = "wait"]
    /\ calls' = calls + 1
    /\ UNCHANGED <<shared, mu, loc, result, snap, persistedIdx, env, web>>

NextS ==
    \/ \E p \in Procs :
          \/ CallWriter(p)
          \/ CallRawName(p)
          \/ CallReader(p)
          \/ Lock(p)
          \/ Unlock(p)
          \/ Return(p)
          \/ Submit(p) /\ Succeeds(p)
          \/ SubmitSave(p) /\ Succeeds(p)
          \/ AcceptFind(p) /\ Succeeds(p)
          \/ AcceptAdd(p) /\ Succeeds(p)
          \/ AcceptMark(p)
          \/ AcceptSaveTournament(p) /\ Succeeds(p)
          \/ AcceptSavePending(p) /\ Succeeds(p)
          \/ Reject(p) /\ Succeeds(p)
          \/ RejectSave(p) /\ Succeeds(p)
          \/ Update(p) /\ Succeeds(p)
          \/ UpdateSave(p) /\ Succeeds(p)
          \/ RLock(p)
          \/ RUnlock(p)
          \/ HandlerRead(p)
    \/ Restart
    \/ DamageFile

SpecS == Init /\ [][NextS]_vars

-----------------------------------------------------------------------------
(* Scenario C: the process stops at any point of any operation, no write   *)
(* returning an error, and is started again from the two files.            *)

\* The step leaves caller p without an error of MkdirAll, WriteFile or the
\* encoders
NoIOError(p) == result'[p] # "PersistError"

\* The file os.WriteFile is writing when caller p is at its save: WriteFile
\* truncates the file and then writes, so a stop inside it leaves a prefix of
\* the data
FileBeingWritten(p) ==
    CASE pc[p] \in {"acc_saveT", "upd_save"} -> "tournament"
      [] pc[p] \in {"sub_save", "acc_saveP", "rej_save"} -> "pending"
      [] OTHER -> None

\* The process stops, whatever its goroutines are doing, and main runs again:
\* a new TournamentStorage with a new mutex is built from the files, and main
\* exits when that fails
Crash ==
    /\ \E torn \in {None} \cup {FileBeingWritten(p) : p \in Procs} :
          /\ diskTournament' = IF torn = "tournament" THEN Unreadable ELSE diskTournament
          /\ diskPending' = IF torn = "pending" THEN Unreadable ELSE diskPending
    /\ LET r == NewTournamentStorage(diskTournament', diskPending')
       IN  /\ pendingPlayers' = r.pendingPlayers
           /\ tournament' = r.tournament
           /\ pc' = [p \in Procs |-> IF r.err = "ok" THEN "idle" ELSE "down"]
    /\ mu' = [writer |-> None, readers |-> {}]
    /\ op' = [p \in Procs |-> None]
    /\ arg' = [p \in Procs |-> NoArg]
    /\ loc' = [p \in Procs |-> NoLoc]
    /\ result' = [p \in Procs |-> None]
    /\ snap' = NoSnap
    /\ UNCHANGED <<calls, persistedIdx, env, web>>

NextC ==
    \/ \E p \in Procs :
          \/ CallWriter(p)
          \/ CallReader(p)
          \/ Lock(p)
          \/ Unlock(p)
          \/ Return(p)
          \/ Submit(p)
          \/ SubmitSave(p) /\ NoIOError(p)
          \/ AcceptFind(p)
          \/ AcceptAdd(p)
          \/ AcceptMark(p)
          \/ AcceptSaveTournament(p) /\ NoIOError(p)
          \/ AcceptSavePending(p) /\ NoIOError(p)
          \/ Reject(p)
          \/ RejectSave(p) /\ NoIOError(p)
          \/ Update(p)
          \/ UpdateSave(p) /\ NoIOError(p)
          \/ RLock(p)
          \/ RUnlock(p)
          \/ HandlerRead(p)
    \/ Crash

SpecC == Init /\ [][NextC]_vars

-----------------------------------------------------------------------------
(* Scenario L: a queue that registrations, accepts and rejections have     *)
(* built, saved with no failure, and one caller about to call AcceptPlayer. *)

MaxQueueLen == 3

\* The names that were registered; one holds a byte that %q escapes
QueueNames == { <<"A">>, <<"B">>, BadName }

Statuses == {"pending", "accepted", "rejected"}

\* The queues AddPendingPlayer can have built: a name is appended only while
\* it is neither pending nor in the roster, so every earlier entry of the
\* same name is rejected
BuiltQueues ==
    {q \in UNION {[1..n -> [Name : QueueNames, Status : Statuses]] : n \in 0..MaxQueueLen} :
        \A i, j \in 1..Len(q) :
            (i < j /\ q[i].Name = q[j].Name) => q[i].Status = "rejected"}

\* The roster after the accepted entries of q were accepted in queue order
RECURSIVE RosterOf(_, _)
RosterOf(q, t) ==
    IF q = <<>> THEN t
    ELSE RosterOf(Tail(q), IF Head(q).Status = "accepted"
                           THEN AddPlayer(t, Head(q).Name, FALSE, FALSE)[2]
                           ELSE t)

InitL ==
    \E q \in BuiltQueues :
        /\ pendingPlayers = q
        /\ tournament = RosterOf(q, NewTournament)
        /\ diskTournament = IF \A i \in 1..Len(q) : q[i].Status # "accepted" THEN Absent
                            ELSE File(RosterOf(q, NewTournament))
        /\ diskPending = IF q = <<>> THEN Absent ELSE File(MarshalQueue(q))
        /\ persistedIdx = {i \in 1..Len(q) : q[i].Status = "accepted"}
        /\ mu = [writer |-> None, readers |-> {}]
        /\ \E c \in Procs :
              /\ pc = [p \in Procs |-> IF p = c THEN "wait" ELSE "idle"]
              /\ op = [p \in Procs |-> IF p = c THEN "accept" ELSE None]
              /\ \E a \in InputNames \cup QueueNames :
                    arg = [p \in Procs |-> IF p = c THEN a ELSE NoArg]
        /\ loc = [p \in Procs |-> NoLoc]
        /\ result = [p \in Procs |-> None]
        /\ snap = NoSnap
        /\ calls = MaxCalls
        /\ env \in [rejectsDuplicate : BOOLEAN, faults : {FALSE}]
        /\ web = NoWeb

NextL ==
    \E p \in Procs :
        \/ Lock(p)
        \/ Unlock(p)
        \/ Return(p)
        \/ AcceptFind(p)
        \/ AcceptAdd(p)
        \/ AcceptMark(p)
        \/ AcceptSaveTournament(p)
        \/ AcceptSavePending(p)

SpecL == InitL /\ [][NextL]_vars

-----------------------------------------------------------------------------
(* Scenario A: the HTTP layer. Clients post registrations, log in, log out *)
(* and call the admin routes that change state; the handlers call the      *)
(* storage operations above.                                               *)

\* The "name" form values clients send
FormNames == { <<>>, <<" ">>, <<"A">>, <<" ", "A">> }

\* The "player_id" form values clients send
FormPlayerIds == {1}

\* -admin-password (main replaces "" by "admin123")
AdminPassword == "admin123"

\* The "password" form values clients send
Passwords == {"admin123", "letmein"}

\* The "session" cookies clients send: none, an id the server has generated,
\* or an id it has not
Cookies == {NoCookie} \cup {i \in SessionIds : i <= web.issued + 1}

\* the routes main wraps in RequireAdmin that change state
AdminRoutes ==
    {"/admin/accept", "/admin/reject", "/admin/start", "/admin/pair",
     "/admin/next-round", "/admin/remove-player"}

\* the routes main wraps in OptionalAuth
OptionalAuthRoutes == {"/", "/standings", "/pairings"}

\* a.generateSessionID()
generateSessionID(w) == w.issued + 1

\* a.GetSession(sessionID): the session's role, NoSession for ok = false
GetSession(sessions, id) == IF id \in SessionIds THEN sessions[id] ELSE NoSession

\* (mutant) the password is not compared
LoginAdminAnyPassword(w, password) ==
    LET id == generateSessionID(w)
    IN  [id |-> id, err |-> FALSE,
         sessions |-> [w.sessions EXCEPT ![id] = RoleAdmin], issued |-> id]

\* a.LoginAdmin(password)
LoginAdmin(w, password) ==
    IF password # AdminPassword
    THEN [id |-> NoCookie, err |-> TRUE, sessions |-> w.sessions, issued |-> w.issued]
    ELSE LET id == generateSessionID(w)
         IN  [id |-> id, err |-> FALSE,
              sessions |-> [w.sessions EXCEPT ![id] = RoleAdmin], issued |-> id]

\* (mutant) the new session gets the admin role
LoginPlayerAsAdmin(w) ==
    LET id == generateSessionID(w)
    IN  [id |-> id, sessions |-> [w.sessions EXCEPT ![id] = RoleAdmin], issued |-> id]

\* a.LoginPlayer()
LoginPlayer(w) ==
    LET id == generateSessionID(w)
    IN  [id |-> id, sessions |-> [w.sessions EXCEPT ![id] = RolePlayer], issued |-> id]

\* (mutant) any session passes, as in RequirePlayer
RequireAnySession(sessions, cookie) ==
    IF cookie = NoCookie THEN "redirect /login"
    ELSE IF GetSession(sessions, cookie) = NoSession THEN "401"
    ELSE "next"

\* a.RequireAdmin(next): what the wrapper does with the request
RequireAdmin(sessions, cookie) ==
    IF cookie = NoCookie THEN "redirect /login"
    ELSE IF GetSession(sessions, cookie) # RoleAdmin THEN "401"
    ELSE "next"

\* a.ClearSession(w, sessionID): delete(a.sessions, sessionID)
ClearSession(sessions, id) ==
    [i \in SessionIds |-> IF i = id THEN NoSession ELSE sessions[i]]

\* auth.GetSessionFromContext(r.Context()) in the handler of a route: only
\* OptionalAuth (and the Require wrappers) put the session in the context
SessionFromContext(route, sessions, cookie) ==
    IF route \in OptionalAuthRoutes THEN GetSession(sessions, cookie) ELSE NoSession

\* the mutation an admin handler passes to UpdateTournament
RouteMutators(route) ==
    CASE route = "/admin/start" -> {<<"start", 0>>}
      [] route = "/admin/pair" -> {<<"pair", 0>>}
      [] route = "/admin/next-round" -> {<<"next", 0>>}
      [] route = "/admin/remove-player" -> {<<"remove", i>> : i \in FormPlayerIds}

\* What the server reads of a request: its route, its "session" cookie and
\* the session it names, its "password" form value and its "name" form value
Request(route, cookie, form) ==
    [route |-> route, cookie |-> cookie, role |-> GetSession(web.sessions, cookie),
     password |-> None, name |-> form]

\* The handler answers without calling the storage
Answer(p, route, cookie, form, status) ==
    /\ web' = [web EXCEPT !.req[p] = Request(route, cookie, form),
                          !.resp[p] = [status |-> status, cookie |-> NoCookie]]
    /\ UNCHANGED <<pc, op, arg>>

\* The handler calls a storage operation and reaches ts.mu.Lock()
CallStorage(p, route, cookie, form, o, a) ==
    /\ web' = [web EXCEPT !.req[p] = Request(route, cookie, form), !.resp[p] = NoResp]
    /\ op' = [op EXCEPT ![p] = o]
    /\ arg' = [arg EXCEPT ![p] = a]
    /\ pc' = [pc EXCEPT ![p] = "wait"]

\* POST /register: PlayerHandlers.RegisterPost up to AddPendingPlayer (the
\* route has no wrapper: the request's cookie is not read)
RegisterPost(p) ==
    /\ pc[p] = "idle"
    /\ calls < MaxCalls
    /\ calls' = calls + 1
    /\ \E name \in FormNames :
         IF name = <<>>
         THEN Answer(p, "/register", NoCookie, NoArg, "Name is required")
         ELSE CallStorage(p, "/register", NoCookie, NoArg, "submit", name)
    /\ UNCHANGED <<shared, mu, loc, result, snap, persistedIdx, env>>

\* POST to an admin route: RequireAdmin, then AdminHandlers.AcceptPlayer,
\* RejectPlayer, StartTournament, Pair, NextRound or RemovePlayer up to the
\* storage call
AdminPost(p) ==
    /\ pc[p] = "idle"
    /\ calls < MaxCalls
    /\ calls' = calls + 1
    /\ \E route \in AdminRoutes, c \in Cookies :
         LET gate == RequireAdmin(web.sessions, c)
         IN  IF gate # "next"
             THEN Answer(p, route, c, NoArg, gate)
             ELSE IF route \in {"/admin/accept", "/admin/reject"}
             THEN \E form \in FormNames :
                    LET name == TrimSpace(form)
                    IN  IF name = <<>>
                        THEN Answer(p, route, c, form, "Name is required")
                        ELSE CallStorage(p, route, c, form,
                                IF route = "/admin/accept" THEN "accept" ELSE "reject",
                                name)
             ELSE \E m \in RouteMutators(route) : CallStorage(p, route, c, NoArg, "update", m)
    /\ UNCHANGED <<shared, mu, loc, result, snap, persistedIdx, env>>

\* POST /login: AuthHandlers.LoginPost (no wrapper either)
LoginPost(p) ==
    /\ pc[p] = "idle"
    /\ calls < MaxCalls
    /\ calls' = calls + 1
    /\ \E password \in Passwords :
         LET r == LoginAdmin(web, password)
         IN  web' = [web EXCEPT
                        !.sessions = r.sessions,
                        !.issued = r.issued,
                        !.req[p] = [Request("/login", NoCookie, NoArg) EXCEPT !.password = password],
                        !.resp[p] = IF r.err
                                    THEN [status |-> "Invalid password", cookie |-> NoCookie]
                                    ELSE [status |-> "redirect /admin/dashboard",
                                          cookie |-> r.id]]
    /\ UNCHANGED <<shared, mu, pc, op, arg, loc, result, snap, persistedIdx, env>>

\* /logout: AuthHandlers.Logout, registered without a wrapper
Logout(p) ==
    /\ pc[p] = "idle"
    /\ calls < MaxCalls
    /\ calls' = calls + 1
    /\ \E c \in Cookies :
         LET session == SessionFromContext("/logout", web.sessions, c)
         IN  web' = [web EXCEPT
                        !.sessions = IF session # NoSession /\ c # NoCookie
                                     THEN ClearSession(@, c) ELSE @,
                        !.req[p] = Request("/logout", c, NoArg),
                        !.resp[p] = [status |-> "redirect /", cookie |-> NoCookie]]
    /\ UNCHANGED <<shared, mu, pc, op, arg, loc, result, snap, persistedIdx, env>>

\* The storage call has returned: the rest of the handler. RegisterPost logs
\* the client in as a player when AddPendingPlayer returned nil.
Respond(p) ==
    /\ pc[p] = "ret"
    /\ IF web.req[p].route = "/register" /\ result[p] = "ok"
       THEN LET r == LoginPlayer(web)
            IN  web' = [web EXCEPT
                           !.sessions = r.sessions,
                           !.issued = r.issued,
                           !.resp[p] = [status |-> "ok", cookie |-> r.id]]
       ELSE web' = [web EXCEPT !.resp[p] = [status |-> result[p], cookie |-> NoCookie]]
    /\ pc' = [pc EXCEPT ![p] = "idle"]
    /\ op' = [op EXCEPT ![p] = None]
    /\ arg' = [arg EXCEPT ![p] = NoArg]
    /\ loc' = [loc EXCEPT ![p] = NoLoc]
    /\ result' = [result EXCEPT ![p] = None]
    /\ UNCHANGED <<shared, mu, snap, calls, persistedIdx, env>>

NextA ==
    \E p \in Procs :
        \/ RegisterPost(p)
        \/ AdminPost(p)
        \/ LoginPost(p)
        \/ Logout(p)
        \/ Respond(p)
        \/ Lock(p)
        \/ Unlock(p)
        \/ Submit(p)
        \/ SubmitSave(p)
        \/ AcceptFind(p)
        \/ AcceptAdd(p)
        \/ AcceptMark(p)
        \/ AcceptSaveTournament(p)
        \/ AcceptSavePending(p)
        \/ Reject(p)
        \/ RejectSave(p)
        \/ Update(p)
        \/ UpdateSave(p)

\* The name registered and accepted before the server was last started
ResumedName == <<"A">>

\* A server started with no file on disk, or started again (the sessions are
\* held in memory only) after ResumedName was registered and accepted
InitA ==
    /\ \/ /\ pendingPlayers = <<>>
          /\ tournament = NewTournament
          /\ diskTournament = Absent
          /\ diskPending = Absent
          /\ persistedIdx = {}
       \/ LET q == <<[Name |-> ResumedName, Status |-> "accepted"]>>
              t == AddPlayer(NewTournament, ResumedName, FALSE, FALSE)[2]
          IN  /\ pendingPlayers = NewTournamentStorage(File(t), File(MarshalQueue(q))).pendingPlayers
              /\ tournament = NewTournamentStorage(File(t), File(MarshalQueue(q))).tournament
              /\ diskTournament = File(t)
              /\ diskPending = File(MarshalQueue(q))
              /\ persistedIdx = {1}
    /\ mu = [writer |-> None, readers |-> {}]
    /\ pc = [p \in Procs |-> "idle"]
    /\ op = [p \in Procs |-> None]
    /\ arg = [p \in Procs |-> NoArg]
    /\ loc = [p \in Procs |-> NoLoc]
    /\ result = [p \in Procs |-> None]
    /\ snap = NoSnap
    /\ calls = 0
    /\ env \in [rejectsDuplicate : BOOLEAN, faults : {TRUE}]
    /\ web = NoWeb

SpecA == InitA /\ [][NextA]_vars

-----------------------------------------------------------------------------
(* Properties *)

\* The body of a mutating operation has run and its deferred Unlock is next:
\* what the caller and every later observer will see
AtReturn(p, o) == pc[p] = "unlock" /\ op[p] = o

InCritical(p) ==
    pc[p] \in {"sub", "sub_save", "acc_find", "acc_add", "acc_mark", "acc_saveT",
               "acc_saveP", "rej", "rej_save", "upd", "upd_save", "unlock"}

NoPendingMatch(q, name) ==
    \A i \in 1..Len(q) :
        q[i].Status = "pending" => NormName(q[i].Name) # NormName(name)

HasPendingNamed(q, name) ==
    \E i \in 1..Len(q) : q[i].Status = "pending" /\ q[i].Name = name

GuardedUnchanged ==
    /\ pendingPlayers = snap.q
    /\ tournament = snap.t
    /\ diskPending = snap.dq
    /\ diskTournament = snap.dt

\* C1. P1, mutual exclusivity: whenever no writer holds the lock, no queue
\* entry is pending while its stored name is in the in-memory engine roster.
C1_MutualExclusivity ==
    mu.writer = None =>
        \A i \in 1..Len(pendingPlayers) :
            pendingPlayers[i].Status = "pending"
                => ~GetPlayerByName(tournament, pendingPlayers[i].Name)

\* C2. I2, accept ordering: a status becomes accepted only in a step of an
\* AcceptPlayer call whose AddPlayer for that entry's stored name has already
\* returned success; and an entry is accepted, in any state seen with the lock
\* free and in the durable queue record, only if an engine save that included
\* the participant has succeeded.
C2_MarkOnlyAfterAdd ==
    \A i \in 1..Len(pendingPlayers) :
        (/\ i <= Len(pendingPlayers')
         /\ pendingPlayers[i].Status # "accepted"
         /\ pendingPlayers'[i].Status = "accepted")
        => /\ mu.writer \in Procs
           /\ op[mu.writer] = "accept"
           /\ loc[mu.writer].added
           /\ loc[mu.writer].playerIndex = i
           /\ loc[mu.writer].actualName = pendingPlayers[i].Name
           /\ GetPlayerByName(tournament, pendingPlayers[i].Name)

C2_AcceptedOnlyIfPersisted ==
    /\ mu.writer = None =>
          \A i \in 1..Len(pendingPlayers) :
              pendingPlayers[i].Status = "accepted" => i \in persistedIdx
    /\ diskPending.exists =>
          \A i \in 1..Len(diskPending.data) :
              diskPending.data[i].Status = "accepted" => i \in persistedIdx

C2_AcceptOrdering ==
    []C2_AcceptedOnlyIfPersisted /\ [][C2_MarkOnlyAfterAdd]_vars

C2_Witness ==
    /\ mu.writer = None
    /\ \E i \in 1..Len(pendingPlayers) : pendingPlayers[i].Status = "accepted"
    /\ diskPending.exists
    /\ \E i \in 1..Len(diskPending.data) : diskPending.data[i].Status = "accepted"

\* C3. Scenario E: both concurrent accepts of the one pending entry have
\* returned => exactly one returned success, the other NotFound, and the
\* roster holds exactly one participant with the stored name.
C3_ScenarioE ==
    (\A p \in Procs : pc[p] = "ret") =>
        /\ Cardinality({p \in Procs : result[p] = "ok"}) = 1
        /\ \A p \in Procs : result[p] \in {"ok", "NotFound"}
        /\ CountNamed(tournament, pendingPlayers[1].Name) = 1
        /\ GetPlayerCount(tournament) = 1
        /\ pendingPlayers[1].Status = "accepted"

C3_Witness ==
    /\ \A p \in Procs : pc[p] = "ret"
    /\ result["p2"] = "ok"
    /\ result["p1"] = "NotFound"
    /\ arg["p1"] # arg["p2"]

\* C4. Mutating operations are atomic with respect to each other: at most one
\* caller is between Lock and Unlock, it is the writer the mutex records, no
\* reader holds the lock meanwhile, and every step that changes the queue, the
\* engine state or a durable record is a step of that one caller, all other
\* callers standing still in that step (so the run equals the sequential
\* execution of the calls in the order they took the lock).
C4_OneWriter ==
    /\ Cardinality({p \in Procs : InCritical(p)}) <= 1
    /\ \A p \in Procs : InCritical(p) => mu.writer = p /\ mu.readers = {}

C4_NoInterference ==
    shared' # shared =>
        /\ mu.writer \in Procs
        /\ InCritical(mu.writer)
        /\ mu'.writer = mu.writer
        /\ pc'[mu.writer] # pc[mu.writer]
        /\ \A q \in Procs \ {mu.writer} :
              pc'[q] = pc[q] /\ result'[q] = result[q] /\ loc'[q] = loc[q]

C4_Atomicity == []C4_OneWriter /\ [][C4_NoInterference]_vars

\* one caller is inside its critical section while the other waits for the lock
C4_Witness ==
    /\ pc["p1"] \in {"acc_saveT", "sub_save", "rej_save", "upd_save"}
    /\ pc["p2"] = "wait"

\* C5. Read-only queries never read alongside an in-flight writer: every read
\* of engine state happens under the shared lock, so while a handler reads
\* the value GetTournament returned, no mutating operation is inside its
\* critical section.
C5_NoReadBesideWriter ==
    \A p \in Procs : pc[p] = "reading" => mu.writer = None

\* The operation's effect is in memory and on disk
Persisted(o) ==
    CASE o = "submit" -> diskPending = File(MarshalQueue(pendingPlayers))
      [] o = "reject" -> diskPending = File(MarshalQueue(pendingPlayers))
      [] o = "update" -> diskTournament = File(tournament)
      [] o = "accept" -> diskPending = File(MarshalQueue(pendingPlayers))
                            /\ diskTournament = File(tournament)

\* C6. All-or-nothing: an operation returns success with its effect durably
\* persisted, or an error with the in-memory queue and engine state as they
\* were before the call.
C6_AllOrNothing ==
    \A p \in Procs :
        pc[p] = "unlock" =>
            IF result[p] = "ok"
            THEN Persisted(op[p])
            ELSE pendingPlayers = snap.q /\ tournament = snap.t

AcceptSucceeded(p) == AtReturn(p, "accept") /\ result[p] = "ok"

AcceptedEntryDurable(p) ==
    /\ loc[p].found
    /\ loc[p].playerIndex = FindPending(snap.q, arg[p])
    /\ pendingPlayers[loc[p].playerIndex].Status = "accepted"
    /\ ~HasPendingNamed(pendingPlayers, loc[p].actualName)
    /\ diskTournament = File(tournament)
    /\ diskPending = File(MarshalQueue(pendingPlayers))

\* C7. P4, accept success: accept returned success => the matched entry is
\* accepted and no longer pending, the roster contains a participant whose
\* name is the trimmed submitted name, and both durable records reflect it.
C7_AcceptSuccessTrimmed ==
    \A p \in Procs :
        AcceptSucceeded(p) =>
            /\ AcceptedEntryDurable(p)
            /\ GetPlayerByName(tournament, TrimSpace(snap.q[loc[p].playerIndex].Name))

\* C8. P3 / Scenario D: accept found the entry and the engine's AddPlayer
\* failed => accept returns the engine's error, the entry is still pending,
\* the queue, the roster and both durable records are as before the call.
C8_AddFailedStep ==
    \A p \in Procs :
        (pc[p] = "acc_add" /\ pc'[p] = "unlock")
            => result'[p] = "EngineError" /\ shared' = shared

C8_AtReturn ==
    \A p \in Procs :
        (AtReturn(p, "accept") /\ result[p] = "EngineError") =>
            /\ loc[p].found
            /\ ~loc[p].added
            /\ GuardedUnchanged
            /\ pendingPlayers[loc[p].playerIndex].Status = "pending"
            /\ HasPendingNamed(pendingPlayers, loc[p].actualName)

C8_EngineAddFails == []C8_AtReturn /\ [][C8_AddFailedStep]_vars

C8_Witness ==
    \E p \in Procs :
        /\ AtReturn(p, "accept")
        /\ result[p] = "EngineError"
        /\ Len(snap.t.players) > 0

\* C9. Scenario C: accept of a name that matches no pending entry fails with
\* NotFound; the queue, the engine state and both durable records are
\* unchanged, and the engine was not called.
C9_AcceptNotFound ==
    \A p \in Procs :
        (AtReturn(p, "accept") /\ NoPendingMatch(snap.q, arg[p])) =>
            /\ result[p] = "NotFound"
            /\ GuardedUnchanged
            /\ ~loc[p].found
            /\ ~loc[p].added

\* the name was submitted and has been accepted or rejected since
C9_Witness ==
    \E p \in Procs :
        /\ AtReturn(p, "accept")
        /\ NoPendingMatch(snap.q, arg[p])
        /\ \E i \in 1..Len(snap.q) : NormName(snap.q[i].Name) = NormName(arg[p])

\* C10. P2 / Scenario A: a submit of a name that has a pending entry fails
\* with AlreadyPending and leaves the queue as it is; a submit that goes
\* through appends exactly one pending entry; so no name has two pending
\* entries.
C10_DuplicateSubmit ==
    /\ \A p \in Procs :
          AtReturn(p, "submit") =>
              IF HasPendingNamed(snap.q, arg[p])
              THEN result[p] = "AlreadyPending" /\ GuardedUnchanged
              ELSE result[p] \in {"ok", "PersistError"} =>
                      pendingPlayers =
                          Append(snap.q, [Name |-> arg[p], Status |-> "pending"])
    /\ \A n \in InputNames :
          Len(SelectSeq(GetPendingPlayers(pendingPlayers), LAMBDA pp : pp.Name = n)) <= 1

C10_Witness ==
    \E p \in Procs :
        /\ AtReturn(p, "submit")
        /\ result[p] = "AlreadyPending"
        /\ Len(pendingPlayers) = 1

\* C11. I1 with names compared as lookups compare them: no two pending queue
\* entries have names that are equal once lowered and trimmed.
C11_UniqueNormalised ==
    \A i, j \in 1..Len(pendingPlayers) :
        (/\ i # j
         /\ pendingPlayers[i].Status = "pending"
         /\ pendingPlayers[j].Status = "pending")
        => NormName(pendingPlayers[i].Name) # NormName(pendingPlayers[j].Name)

\* C12. Scenario B: accept found a pending entry whose lowered, trimmed name
\* equals the lowered, trimmed argument and returned success => the roster holds
\* the name exactly as it was stored (one participant more than before, none
\* added under the argument's spelling), the entry is accepted and
\* GetPendingPlayers no longer returns an entry with that name.
C12_AcceptByNormalisedName ==
    \A p \in Procs :
        (AtReturn(p, "accept") /\ result[p] = "ok") =>
            LET i == loc[p].playerIndex
                stored == snap.q[i].Name
            IN  /\ snap.q[i].Status = "pending"
                /\ NormName(stored) = NormName(arg[p])
                /\ \A j \in 1..(i - 1) :
                      snap.q[j].Status = "pending"
                          => NormName(snap.q[j].Name) # NormName(arg[p])
                /\ CountNamed(tournament, stored) = CountNamed(snap.t, stored) + 1
                /\ GetPlayerCount(tournament) = GetPlayerCount(snap.t) + 1
                /\ arg[p] # stored
                      => CountNamed(tournament, arg[p]) = CountNamed(snap.t, arg[p])
                /\ pendingPlayers[i].Status = "accepted"
                /\ \A k \in 1..Len(GetPendingPlayers(pendingPlayers)) :
                      GetPendingPlayers(pendingPlayers)[k].Name # stored

\* the argument differs from the stored name in case
C12_Witness ==
    \E p \in Procs :
        /\ AtReturn(p, "accept")
        /\ result[p] = "ok"
        /\ arg[p] = <<"a">>
        /\ loc[p].actualName = <<"A">>
        /\ GetPlayerByName(tournament, <<"A">>)
        /\ ~GetPlayerByName(tournament, <<"a">>)

\* reject of a name that has a pending entry: that entry, and nothing else in
\* the queue, is now rejected; the engine state and its durable record are as
\* before; GetPendingPlayers does not return the entry
RejectedOnlyThatEntry(p) ==
    \E i \in 1..Len(snap.q) :
        /\ snap.q[i].Name = arg[p]
        /\ snap.q[i].Status = "pending"
        /\ pendingPlayers = [snap.q EXCEPT ![i].Status = "rejected"]
        /\ tournament = snap.t
        /\ diskTournament = snap.dt
        /\ \A k \in 1..Len(GetPendingPlayers(pendingPlayers)) :
              GetPendingPlayers(pendingPlayers)[k].Name # arg[p]

\* C13. P5, reject finality: reject of a name with a pending entry changes only
\* that entry's status to rejected (the other entries, the roster and the
\* durable engine record untouched), GetPendingPlayers no longer returns the
\* entry and the name is not in the roster; reject of a name with no pending
\* entry (a second reject) returns NotFound and changes nothing.
C13_RejectFinality ==
    \A p \in Procs :
        AtReturn(p, "reject") =>
            IF HasPendingNamed(snap.q, arg[p])
            THEN /\ result[p] \in {"ok", "PersistError"}
                 /\ RejectedOnlyThatEntry(p)
                 /\ ~GetPlayerByName(tournament, arg[p])
            ELSE result[p] = "NotFound" /\ GuardedUnchanged

\* C14. Accept step 5: the engine add succeeded and saveTournament fails =>
\* accept returns that error, the entry is pending again before the lock is
\* released (the queue is as before the call, and no reader holds the lock
\* while the entry is marked accepted and unsaved), savePendingPlayers is not
\* reached, both durable records are as before, and the participant added
\* stays in the in-memory roster.
C14_SaveTournamentFailsStep ==
    \A p \in Procs :
        (pc[p] = "acc_saveT" /\ pc'[p] = "unlock") =>
            /\ result'[p] = "PersistError"
            /\ pendingPlayers[loc[p].playerIndex].Status = "accepted"
            /\ pendingPlayers'[loc[p].playerIndex].Status = "pending"
            /\ pendingPlayers' = snap.q
            /\ diskPending' = snap.dq
            /\ diskTournament' = snap.dt
            /\ tournament' = tournament
            /\ CountNamed(tournament', loc[p].actualName)
                  = CountNamed(snap.t, loc[p].actualName) + 1

C14_UnsavedMarkUnseen ==
    \A p \in Procs :
        /\ pc[p] \in {"acc_saveT", "acc_saveP"}
              => mu.writer = p /\ mu.readers = {}
                    /\ \A r \in Procs \ {p} : pc[r] \notin {"rheld"}
        /\ (AtReturn(p, "accept") /\ result[p] = "PersistError")
              => /\ pendingPlayers = snap.q
                 /\ pendingPlayers[loc[p].playerIndex].Status = "pending"
                 /\ GetPlayerByName(tournament, loc[p].actualName)

C14_EngineSaveFails == []C14_UnsavedMarkUnseen /\ [][C14_SaveTournamentFailsStep]_vars

\* accept has returned the error of saveTournament
C14_Witness ==
    \E p \in Procs :
        /\ AtReturn(p, "accept")
        /\ result[p] = "PersistError"
        /\ diskTournament = snap.dt
        /\ GetPlayerByName(tournament, loc[p].actualName)
        /\ ~GetPlayerByName(snap.t, loc[p].actualName)

\* The engine, in memory and on disk, holds a participant under the name of
\* queue entry i, which is pending in memory and not accepted on disk
Disagree(i) ==
    /\ i <= Len(pendingPlayers)
    /\ pendingPlayers[i].Status = "pending"
    /\ GetPlayerByName(tournament, pendingPlayers[i].Name)
    /\ diskTournament.exists
    /\ GetPlayerByName(diskTournament.data, pendingPlayers[i].Name)
    /\ (diskPending.exists /\ i <= Len(diskPending.data))
          => diskPending.data[i].Status = "pending"

\* C15. Accept step 6: saveTournament succeeded and savePendingPlayers fails =>
\* accept returns an error, the in-memory entry is pending again (the queue is
\* as before the call), the durable engine record holds the participant and
\* the durable queue record is as before, not showing the entry accepted; and
\* the disagreement stays until an explicit accept or reject of that entry or
\* a removal of the participant: no other step ends it.
C15_SavePendingFailsStep ==
    \A p \in Procs :
        (pc[p] = "acc_saveP" /\ result'[p] = "PersistError") =>
            /\ pc'[p] = "unlock"
            /\ pendingPlayers[loc[p].playerIndex].Status = "accepted"
            /\ pendingPlayers' = snap.q
            /\ pendingPlayers'[loc[p].playerIndex].Status = "pending"
            /\ diskTournament' = diskTournament
            /\ diskTournament'.exists
            /\ diskTournament'.data = tournament'
            /\ CountNamed(diskTournament'.data, loc[p].actualName)
                  = CountNamed(snap.t, loc[p].actualName) + 1
            /\ diskPending' = snap.dq
            /\ Disagree(loc[p].playerIndex)'

C15_NotReconciled ==
    \A i \in 1..Len(pendingPlayers) :
        (Disagree(i) /\ ~Disagree(i)') =>
            /\ mu.writer \in Procs
            /\ \/ op[mu.writer] = "accept" /\ loc[mu.writer].playerIndex = i
               \/ op[mu.writer] = "reject" /\ arg[mu.writer] = pendingPlayers[i].Name
               \/ op[mu.writer] = "update" /\ MutatorKind(arg[mu.writer]) = "remove"

C15_PartialFailureWindow ==
    [][C15_SavePendingFailsStep]_vars /\ [][C15_NotReconciled]_vars

\* accept has returned the error of savePendingPlayers, and the lock is free
\* again with the two durable records in disagreement
C15_Witness ==
    \E p \in Procs :
        /\ pc[p] = "ret"
        /\ op[p] = "accept"
        /\ result[p] = "PersistError"
        /\ mu.writer = None
        /\ Disagree(loc[p].playerIndex)

\* C16. Recoverability: after an accept of the entry failed at a persistence
\* step, an accept of that name made while the engine and the disk work
\* returns success, with the entry accepted and exactly one participant of the
\* stored name in the roster.
C16_Recoverable ==
    \A p \in Procs :
        (/\ AtReturn(p, "accept")
         /\ snap.q[1].Status = "pending"
         /\ NormName(arg[p]) = NormName(snap.q[1].Name)
         /\ GetPlayerByName(snap.t, snap.q[1].Name))
        => /\ result[p] = "ok"
           /\ pendingPlayers[1].Status = "accepted"
           /\ CountNamed(tournament, snap.q[1].Name) = 1

\* C17. UpdateTournament with a mutation that returns an error: the error is
\* returned, saveTournament is not reached and both durable records are as
\* before the call; the durable engine record is written by UpdateTournament
\* only after the mutation returned no error, and then with the mutated state.
C17_AtReturn ==
    \A p \in Procs :
        AtReturn(p, "update") =>
            LET r == ApplyMutator(snap.t, arg[p])
            IN  IF r[1] # "ok"
                THEN /\ result[p] = r[1]
                     /\ diskTournament = snap.dt
                     /\ diskPending = snap.dq
                ELSE /\ result[p] \in {"ok", "PersistError"}
                     /\ result[p] = "ok" => diskTournament = File(r[2])
                     /\ result[p] = "PersistError" => diskTournament = snap.dt

C17_SaveOnlyAfterSuccess ==
    \A p \in Procs :
        /\ (pc[p] = "upd" /\ pc'[p] # "upd" /\ ApplyMutator(tournament, arg[p])[1] # "ok")
              => pc'[p] = "unlock" /\ diskTournament' = diskTournament
        /\ pc'[p] = "upd_save"
              => pc[p] \in {"upd", "upd_save"} /\ ApplyMutator(snap.t, arg[p])[1] = "ok"

C17_MutatorError == []C17_AtReturn /\ [][C17_SaveOnlyAfterSuccess]_vars

\* the start-then-pair mutation failed at its second step: the engine has
\* changed in memory and nothing was written
C17_Witness ==
    \E p \in Procs :
        /\ AtReturn(p, "update")
        /\ MutatorKind(arg[p]) = "startThenPair"
        /\ result[p] = "EngineError"
        /\ tournament # snap.t
        /\ diskTournament = snap.dt

\* C18. No rollback outside accept: a failed save in AddPendingPlayer,
\* RejectPlayer or UpdateTournament returns the error and keeps the in-memory
\* change. The submitted entry stays appended and pending, GetPendingPlayers
\* returns it and a resubmission returns AlreadyPending; the rejected entry
\* stays rejected and a retried reject returns NotFound; the engine keeps the
\* mutation. The durable record is as before the call.
C18_NoRollback ==
    \A p \in Procs :
        /\ (AtReturn(p, "submit") /\ result[p] = "PersistError") =>
              /\ pendingPlayers = Append(snap.q, [Name |-> arg[p], Status |-> "pending"])
              /\ \E k \in 1..Len(GetPendingPlayers(pendingPlayers)) :
                    GetPendingPlayers(pendingPlayers)[k].Name = arg[p]
              /\ diskPending = snap.dq
        /\ (AtReturn(p, "submit") /\ HasPendingNamed(snap.q, arg[p])) =>
              result[p] = "AlreadyPending"
        /\ (AtReturn(p, "reject") /\ result[p] = "PersistError") =>
              RejectedOnlyThatEntry(p) /\ diskPending = snap.dq
        /\ (AtReturn(p, "reject") /\ ~HasPendingNamed(snap.q, arg[p])) =>
              result[p] = "NotFound"
        /\ (AtReturn(p, "update") /\ result[p] = "PersistError") =>
              /\ ApplyMutator(snap.t, arg[p])[1] = "ok"
              /\ tournament = ApplyMutator(snap.t, arg[p])[2]
              /\ tournament # snap.t
              /\ diskTournament = snap.dt

\* a resubmission of a name whose first submission failed to save
C18_Witness ==
    \E p \in Procs :
        /\ AtReturn(p, "submit")
        /\ result[p] = "AlreadyPending"
        /\ HasPendingNamed(snap.q, arg[p])
        /\ ~diskPending.exists

QueueOnDisk == diskPending = File(MarshalQueue(pendingPlayers))

EngineOnDisk == diskTournament.exists /\ diskTournament.data = tournament

C19_LockReleased ==
    \A p \in Procs :
        /\ pc[p] \in {"idle", "wait", "rwait", "reading", "ret"}
              => mu.writer # p /\ p \notin mu.readers
        /\ mu.writer = p => InCritical(p)
        /\ p \in mu.readers => pc[p] = "rheld"

\* C19. No deadlock, no indefinite blocking: under fair scheduling every call
\* that has been invoked (submit, accept, reject, update, the queries)
\* returns, and a caller that has returned, on whatever path, holds no lock.
C19_EveryCallReturns ==
    /\ []C19_LockReleased
    /\ \A p \in Procs : (pc[p] \in {"wait", "rwait"}) ~> (pc[p] = "ret")

\* accept has returned after savePendingPlayers failed, the deepest exit
\* path, and the lock is free for the call that has been waiting for it
C19_Witness ==
    \E p \in Procs :
        /\ pc[p] = "ret"
        /\ op[p] = "accept"
        /\ result[p] = "PersistError"
        /\ diskTournament.exists
        /\ mu.writer = None
        /\ \E r \in Procs \ {p} : pc[r] = "wait"

\* C22. Entry lifecycle: in every step the queue keeps its entries, their
\* order and their names and grows by at most one appended pending entry; a
\* status changes only in a step of the lock holder's accept or reject;
\* rejected is final; accepted is left only by the accept that set it, for an
\* entry that was pending when that accept took the lock, so an entry seen as
\* accepted or rejected with the lock free keeps that status.
C22_Step ==
    /\ Len(pendingPlayers') \in {Len(pendingPlayers), Len(pendingPlayers) + 1}
    /\ Len(pendingPlayers') = Len(pendingPlayers) + 1
          => pendingPlayers'[Len(pendingPlayers')].Status = "pending"
    /\ \A i \in 1..Len(pendingPlayers) :
          LET old == pendingPlayers[i]
              new == pendingPlayers'[i]
          IN  /\ new.Name = old.Name
              /\ new.Status # old.Status =>
                    /\ mu.writer \in Procs
                    /\ \/ /\ op[mu.writer] = "accept"
                          /\ loc[mu.writer].playerIndex = i
                          /\ snap.q[i].Status = "pending"
                          /\ <<old.Status, new.Status>> \in
                                {<<"pending", "accepted">>, <<"accepted", "pending">>}
                       \/ /\ op[mu.writer] = "reject"
                          /\ arg[mu.writer] = old.Name
                          /\ <<old.Status, new.Status>> = <<"pending", "rejected">>

C22_EntryLifecycle == [][C22_Step]_vars

\* an accept has marked its entry accepted, saved the engine state, failed to
\* save the queue and set the entry back to pending before unlocking
C22_Witness ==
    \E p \in Procs :
        /\ AtReturn(p, "accept")
        /\ result[p] = "PersistError"
        /\ diskTournament # snap.dt
        /\ snap.q[loc[p].playerIndex].Status = "pending"
        /\ pendingPlayers[loc[p].playerIndex].Status = "pending"

\* C24. A submit of a name that is in the engine roster returns AlreadyActive,
\* appends no entry and writes no durable record.
C24_AlreadyActive ==
    \A p \in Procs :
        (AtReturn(p, "submit") /\ GetPlayerByName(snap.t, arg[p])) =>
            /\ result[p] = "AlreadyActive"
            /\ GuardedUnchanged

\* The positions of the pending entries of q, and the k-th of them
PendingPositions(q) == {i \in 1..Len(q) : q[i].Status = "pending"}

KthPending(q, k) ==
    CHOOSE i \in PendingPositions(q) :
        Cardinality({j \in PendingPositions(q) : j <= i}) = k

\* C23. GetPendingPlayers returns exactly the entries that are pending when
\* it is called, in insertion order, and changes no state: the slice it
\* returns has one element per pending entry, the k-th being the k-th pending
\* entry of the queue, so an entry accepted or rejected is no longer in it.
C23_ListStep ==
    \A p \in Procs :
        (pc[p] = "rheld" /\ op[p] = "list" /\ pc'[p] = "ret") =>
            LET l == loc'[p].listed
            IN  /\ Len(l) = Cardinality(PendingPositions(pendingPlayers))
                /\ \A k \in 1..Len(l) : l[k] = pendingPlayers[KthPending(pendingPlayers, k)]
                /\ shared' = shared

AcceptedNames(q) == {q[i].Name : i \in {j \in 1..Len(q) : q[j].Status = "accepted"}}

C21_ResumeAfterRestart ==
    (Quiescent /\ AllSucceeded) =>
        LET r == NewTournamentStorage(diskTournament, diskPending)
        IN  IF IsUnreadable(diskTournament) \/ IsUnreadable(diskPending)
            THEN r.err # "ok"
            ELSE /\ r.err = "ok"
                 /\ r.pendingPlayers = pendingPlayers
                 /\ r.tournament = tournament

\* C25: no entry of the queue has a name that is empty once trimmed: an empty
\* or blank name is refused by the registration handler and by the submit.
C25_NoBlankEntry ==
    \A i \in 1..Len(pendingPlayers) : TrimSpace(pendingPlayers[i].Name) # <<>>

\* The wrapped handler of p's request has run: it called the storage, or
\* answered itself
HandlerRan(p) ==
    \/ pc[p] # "idle"
    \/ web.resp[p].status \notin {"redirect /login", "401"}

\* C27, the gate: a request to an admin route without a cookie is answered by
\* the redirect to /login, one whose cookie is not the id of an admin session
\* by 401, and the wrapped handler runs only for a request whose cookie was the
\* id of an admin session when it arrived.
C27_Gate ==
    \A p \in Procs :
        web.req[p].route \in AdminRoutes =>
            /\ web.req[p].cookie = NoCookie
                  => pc[p] = "idle" /\ web.resp[p].status = "redirect /login"
            /\ (web.req[p].cookie # NoCookie /\ web.req[p].role # RoleAdmin)
                  => pc[p] = "idle" /\ web.resp[p].status = "401"
            /\ HandlerRan(p)
                  => web.req[p].cookie # NoCookie /\ web.req[p].role = RoleAdmin

\* Some entry's status becomes accepted or rejected in this step
StatusDecided ==
    \E i \in 1..Len(pendingPlayers) :
        /\ pendingPlayers'[i].Status \in {"accepted", "rejected"}
        /\ pendingPlayers'[i].Status # pendingPlayers[i].Status

\* C27, the effect: a step that makes an entry accepted or rejected, or that
\* changes the engine state, is a step of a request to an admin route that
\* came with an admin session.
C27_Mutation ==
    (StatusDecided \/ tournament' # tournament) =>
        \E p \in Procs :
            /\ mu.writer = p
            /\ web.req[p].route \in AdminRoutes
            /\ web.req[p].role = RoleAdmin

ActsLogin(p) ==
    /\ web'.req[p].route = "/login"
    /\ web'.req[p] # web.req[p] \/ web'.resp[p] # web.resp[p]

\* C28, the login: with the admin password the client gets the id of a session
\* that did not exist, which GetSession now resolves to the admin role, and no
\* other session changes; with another password it gets an error and no id,
\* and the sessions are unchanged.
C28_LoginStep ==
    \A p \in Procs :
        ActsLogin(p) =>
            LET id == web'.resp[p].cookie
            IN  IF web'.req[p].password = AdminPassword
                THEN /\ id # NoCookie
                     /\ GetSession(web.sessions, id) = NoSession
                     /\ GetSession(web'.sessions, id) = RoleAdmin
                     /\ \A i \in SessionIds \ {id} : web'.sessions[i] = web.sessions[i]
                ELSE /\ id = NoCookie
                     /\ web'.resp[p].status = "Invalid password"
                     /\ web'.sessions = web.sessions

\* C28, only if: an admin session appears only in the step of a login with
\* the admin password.
C28_OnlyByLogin ==
    (\E i \in SessionIds : web'.sessions[i] = RoleAdmin /\ web.sessions[i] # RoleAdmin)
        => \E p \in Procs : ActsLogin(p) /\ web'.req[p].password = AdminPassword

\* C28: LoginAdmin creates a session if and only if the password matches
C28_LoginIffPassword == [][C28_LoginStep /\ C28_OnlyByLogin]_vars

\* One client has logged in with the admin password, the other has been
\* refused with a wrong one
C28_Witness ==
    \E p, q \in Procs :
        /\ web.req[p].route = "/login"
        /\ web.req[p].password = AdminPassword
        /\ GetSession(web.sessions, web.resp[p].cookie) = RoleAdmin
        /\ web.req[q].route = "/login"
        /\ web.req[q].password # AdminPassword
        /\ web.resp[q].status = "Invalid password"

\* C29: once a request to /logout carrying a session's cookie has been
\* answered, GetSession no longer finds that session, so a later request with
\* its id does not pass RequireAdmin.
C29_LogoutEndsSession ==
    \A p \in Procs :
        (web.req[p].route = "/logout" /\ web.req[p].role # NoSession)
            => /\ GetSession(web.sessions, web.req[p].cookie) = NoSession
               /\ RequireAdmin(web.sessions, web.req[p].cookie) # "next"

\* AddPendingPlayer has returned to RegisterPost, which answers in this step
RegisterAnswers(p) ==
    /\ web.req[p].route = "/register"
    /\ pc[p] = "ret"
    /\ pc'[p] = "idle"

\* RegisterPost refuses the request in this step without calling the storage
RegisterRefuses(p) ==
    /\ web'.req[p].route = "/register"
    /\ pc[p] = "idle"
    /\ pc'[p] = "idle"
    /\ web'.req[p] # web.req[p] \/ web'.resp[p] # web.resp[p]

\* C30, the registration: when AddPendingPlayer succeeded the client gets the
\* id of one session that did not exist, its role is player, and no other
\* session changes; when the registration fails (empty name, or an error of
\* AddPendingPlayer) the sessions are unchanged and the client gets no id.
C30_RegisterStep ==
    \A p \in Procs :
        /\ RegisterAnswers(p) =>
              LET id == web'.resp[p].cookie
              IN  IF result[p] = "ok"
                  THEN /\ id # NoCookie
                       /\ GetSession(web.sessions, id) = NoSession
                       /\ GetSession(web'.sessions, id) = RolePlayer
                       /\ \A i \in SessionIds \ {id} : web'.sessions[i] = web.sessions[i]
                  ELSE id = NoCookie /\ web'.sessions = web.sessions
        /\ RegisterRefuses(p) =>
              web'.resp[p].cookie = NoCookie /\ web'.sessions = web.sessions

\* C30, nothing else: a player session appears only in the answer to a
\* registration that succeeded.
C30_OnlyBySuccess ==
    (\E i \in SessionIds : web'.sessions[i] = RolePlayer /\ web.sessions[i] # RolePlayer)
        => \E p \in Procs : RegisterAnswers(p) /\ result[p] = "ok"

\* C30, the consequence: the id a registration returned does not pass
\* RequireAdmin.
C30_NotAdmin ==
    \A p \in Procs :
        web.req[p].route = "/register"
            => RequireAdmin(web.sessions, web.resp[p].cookie) # "next"

\* C30: registration auto-login
C30_AutoLogin == [](C30_NotAdmin) /\ [][C30_RegisterStep /\ C30_OnlyBySuccess]_vars

\* One registration has succeeded and its client holds a player session; the
\* other was refused because the name is in the roster, and got no session
C30_Witness ==
    \E p, q \in Procs :
        /\ web.req[p].route = "/register"
        /\ web.resp[p].status = "ok"
        /\ GetSession(web.sessions, web.resp[p].cookie) = RolePlayer
        /\ web.req[q].route = "/register"
        /\ web.resp[q].status = "AlreadyActive"
        /\ web.resp[q].cookie = NoCookie
        /\ web.issued = 1

\* The positions of the entries that were pending when the lock was taken and
\* whose lowered, trimmed name equals the lowered, trimmed name
MatchingAtLock(name) ==
    {i \in 1..Len(snap.q) : /\ snap.q[i].Status = "pending"
                            /\ NormName(snap.q[i].Name) = NormName(name)}

\* C31. An accept that succeeded has resolved to the earliest-inserted pending
\* entry whose lowered, trimmed name equals the lowered, trimmed argument, even
\* when a later pending entry equals the argument exactly: the queue differs
\* from the queue at lock time in the status of that entry only, and the roster
\* is the roster at lock time followed by one participant with that entry's
\* stored name.
C31_EarliestMatch ==
    \A p \in Procs :
        (AtReturn(p, "accept") /\ result[p] = "ok") =>
            /\ MatchingAtLock(arg[p]) # {}
            /\ LET e == CHOOSE i \in MatchingAtLock(arg[p]) :
                            \A j \in MatchingAtLock(arg[p]) : i <= j
                   n == Len(snap.t.players)
               IN  /\ pendingPlayers = [snap.q EXCEPT ![e].Status = "accepted"]
                   /\ Len(tournament.players) = n + 1
                   /\ SubSeq(tournament.players, 1, n) = snap.t.players
                   /\ tournament.players[n + 1].name = snap.q[e].Name

\* "A" and "a" were both pending, in this order, and accept("a") has accepted
\* "A" and left "a" pending
C31_Witness ==
    \E p \in Procs :
        /\ AtReturn(p, "accept")
        /\ result[p] = "ok"
        /\ arg[p] = <<"a">>
        /\ Len(pendingPlayers) = 2
        /\ pendingPlayers[1] = [Name |-> <<"A">>, Status |-> "accepted"]
        /\ pendingPlayers[2] = [Name |-> <<"a">>, Status |-> "pending"]
        /\ RosterNames(tournament) = {<<"A">>}


\* The pending entries whose stored name is exactly the "name" form value of
\* the request p is handling
PendingNamedAsForm(p) ==
    {i \in 1..Len(pendingPlayers) : /\ pendingPlayers[i].Status = "pending"
                                    /\ pendingPlayers[i].Name = web.req[p].name}

\* The reject handler has just answered p's request without calling the storage
RejectRefused(p) ==
    /\ pc[p] = "idle" /\ pc'[p] = "idle"
    /\ web'.req[p].route = "/admin/reject"
    /\ web'.resp[p].status = "Name is required"
    /\ <<web'.req[p], web'.resp[p]>> # <<web.req[p], web.resp[p]>>

C32_Step ==
    \A p \in Procs :
        /\ (/\ pc[p] = "rej" /\ pc'[p] # "rej"
            /\ web.req[p].route = "/admin/reject"
            /\ PendingNamedAsForm(p) # {})
              => \E i \in PendingNamedAsForm(p) :
                    pendingPlayers' = SetStatus(pendingPlayers, i, "rejected")
        /\ RejectRefused(p) =>
              ~ \E i \in 1..Len(pendingPlayers) :
                    /\ pendingPlayers[i].Status = "pending"
                    /\ pendingPlayers[i].Name = web'.req[p].name

\* C32. Every pending entry the registration handler has stored can be
\* rejected through the admin reject handler: a reject request of an admin
\* whose "name" form value is the stored name of a pending entry is not refused
\* by the handler, and RejectPlayer moves an entry of that name to rejected.
C32_EveryPendingRejectable == [][C32_Step]_vars

\* C33. Whenever no writer holds the lock, after failed accepts too, every
\* name in the in-memory roster has an accepted queue entry with that exact
\* stored name; so no run leaves a name in the roster whose only queue entry
\* is rejected.
C33_RosterNameAccepted ==
    mu.writer = None =>
        \A n \in RosterNames(tournament) : n \in AcceptedNames(pendingPlayers)

\* C34. Whenever no writer holds the lock, after removals of participants
\* too, the stored name of every accepted queue entry is in the in-memory
\* roster.
C34_AcceptedNameInRoster ==
    mu.writer = None =>
        \A n \in AcceptedNames(pendingPlayers) : GetPlayerByName(tournament, n)

\* C35. Crash consistency: at every point of every operation of a run in
\* which no write returns an error, a coordinator constructed from the two
\* files as they are holds no entry that is pending while its stored name is
\* in the roster.
C35_CrashConsistent ==
    LET r == NewTournamentStorage(diskTournament, diskPending)
    IN  r.err = "ok" =>
            \A i \in 1..Len(r.pendingPlayers) :
                r.pendingPlayers[i].Status = "pending"
                    => ~GetPlayerByName(r.tournament, r.pendingPlayers[i].Name)

\* The operation caller p is in during the step
OpInStep(p) == IF op[p] # None THEN op[p] ELSE op'[p]

C36_Step ==
    \A p \in Procs :
        pc'[p] # pc[p] =>
            /\ OpInStep(p) \in {"submit", "reject"} =>
                  /\ tournament' = tournament
                  /\ diskTournament' = diskTournament
            /\ OpInStep(p) = "update" =>
                  /\ pendingPlayers' = pendingPlayers
                  /\ diskPending' = diskPending
            /\ OpInStep(p) \in {"view", "list"} => shared' = shared

\* C36. Frame conditions: no step of AddPendingPlayer or RejectPlayer,
\* returning success or an error, changes the in-memory engine state or the
\* engine file; no step of UpdateTournament changes the in-memory queue or the
\* queue file; no step of GetTournament, of the handler reading its result, or
\* of GetPendingPlayers changes the queue, the engine state or either file.
C36_Frame == [][C36_Step]_vars

\* a reject has changed and saved the queue while the roster and the engine
\* file, which differ, are as they were
C36_Witness ==
    \E p \in Procs :
        /\ AtReturn(p, "reject")
        /\ result[p] = "ok"
        /\ pendingPlayers # snap.q
        /\ diskPending # snap.dq
        /\ tournament = snap.t
        /\ diskTournament = snap.dt
        /\ diskTournament # File(tournament)

\* Where the text starts to list names: 0 when it lists none
AvailableAt(msg) ==
    IF \E k \in 1..Len(msg) : msg[k] = " not found in pending list. Available: "
    THEN CHOOSE k \in 1..Len(msg) : msg[k] = " not found in pending list. Available: "
    ELSE 0

UnquoteChar(c) == IF c = "\\xff" THEN BadByte ELSE c

\* The names a reader of the text finds between quotation marks
RECURSIVE NamesRead(_, _, _, _)
NamesRead(text, inside, cur, acc) ==
    IF text = <<>> THEN acc
    ELSE IF Head(text) = "\""
    THEN IF inside
         THEN NamesRead(Tail(text), FALSE, <<>>, Append(acc, cur))
         ELSE NamesRead(Tail(text), TRUE, <<>>, acc)
    ELSE IF inside
    THEN NamesRead(Tail(text), TRUE, Append(cur, UnquoteChar(Head(text))), acc)
    ELSE NamesRead(Tail(text), FALSE, cur, acc)

\* The stored names of the pending entries, in queue order
PendingInOrder(q) ==
    LET pend == SelectSeq(q, LAMBDA e : e.Status = "pending")
    IN  [i \in 1..Len(pend) |-> pend[i].Name]

\* C37. When AcceptPlayer finds no matching pending entry, the text of its
\* NotFound error lists exactly the stored names of the entries that are
\* pending at that moment, in queue order, and says "no pending players" when
\* there is none; names of accepted and rejected entries are not listed.
C37_NotFoundListsPending ==
    \A p \in Procs :
        (AtReturn(p, "accept") /\ result[p] = "NotFound") =>
            LET msg == loc[p].message
                k == AvailableAt(msg)
            IN  /\ pendingPlayers = snap.q
                /\ msg # <<>>
                /\ IF PendingInOrder(snap.q) = <<>>
                   THEN /\ k = 0
                        /\ msg[Len(msg)] = " not found in pending list (no pending players)"
                   ELSE /\ k # 0
                        /\ NamesRead(SubSeq(msg, k + 1, Len(msg)), FALSE, <<>>, <<>>)
                               = PendingInOrder(snap.q)

\* two of three entries are pending, the accepted one is asked for, and the
\* text lists the two in queue order
C37_Witness ==
    \E p \in Procs :
        /\ AtReturn(p, "accept")
        /\ result[p] = "NotFound"
        /\ arg[p] = <<"a">>
        /\ pendingPlayers = <<[Name |-> BadName, Status |-> "pending"],
                              [Name |-> <<"A">>, Status |-> "accepted"],
                              [Name |-> <<"B">>, Status |-> "pending"]>>
        /\ loc[p].message =
              <<"player ", "\"", "a", "\"", " not found in pending list. Available: ",
                "\"", "\\xff", "\"", ", ", "\"", "B", "\"">>

=========================================================================
